---- MODULE Spec2Model ----
(***************************************************************************)
(* Summify (main.go): a playlist's videos are processed by one goroutine   *)
(* per video under a counting semaphore; every goroutine fetches the       *)
(* transcript with yt-dlp (retrying), parses the VTT artifact, summarizes  *)
(* it with Gemini and sends one ProcessingResult on a buffered channel;    *)
(* main collects the results into a map keyed by video id and prints the   *)
(* report in playlist order.                                               *)
(***************************************************************************)
EXTENDS Integers, Sequences, FiniteSets, TLC

\* ---------------------------------------------------------------- bounds
\* Longest playlist handed to the run.
MaxVideos == 2
\* Largest value of cfg.ConcurrencyLimit explored.  main.go sets the field
\* from defaultConcurrencyLimit (5); every use reads cfg.ConcurrencyLimit, so
\* the model lets the field range over 1..MaxConcurrencyLimit, which makes
\* the pool fill up with MaxVideos items.
MaxConcurrencyLimit == 2

\* ------------------------------------------------------------- constants
defaultMaxTranscriptRetries == 3

\* Lines 23, 24: the defaults of the optional settings, and a value the
\* environment may set in their place ("" is an unset variable).
defaultPlaylistID == "PL8GTokWa3GEeH8kUkx0rzRWwrzlvO8JaT"
defaultGeminiModel == "gemini-1.5-flash-latest"
Unset == ""
CustomPlaylistID == "PLcustom"
CustomGeminiModel == "gemini-1.0-pro"

\* Video ids the playlist may hold.  A playlist may list one video twice.
IDs == {"a", "b", "c"}
IdOrder == <<"a", "b", "c">>
\* A playlist item with nil Snippet / nil ContentDetails / empty VideoId.
NoId == ""
\* Subtitle languages that "--sub-langs en.*,en" may download for a video,
\* in the (lexical) order filepath.Glob returns their file names.
LangOrder == <<"en", "en-orig">>
Langs == {LangOrder[k] : k \in 1..Len(LangOrder)}
\* The file name "<id>.vtt" of the fallback pattern has no language part.
NoLang == ""

Workers == 1..MaxVideos

\* ------------------------------------------------------------ text values
\* A Go string is a sequence of one-character strings.
SP == " "
IsSpace(c) == c = SP

RECURSIVE TrimLeft(_)
TrimLeft(s) ==
    IF s # <<>> /\ IsSpace(Head(s)) THEN TrimLeft(Tail(s)) ELSE s

RECURSIVE TrimRight(_)
TrimRight(s) ==
    IF s # <<>> /\ IsSpace(s[Len(s)]) THEN TrimRight(SubSeq(s, 1, Len(s) - 1)) ELSE s

\* strings.TrimSpace
TrimSpace(s) == TrimRight(TrimLeft(s))

\* --------------------------------------------------------------- errors
\* A Go error value: its kind, the attempt of the exec error it is or wraps
\* (0: none) and the yt-dlp output it quotes.
Err(kind, attempt, output) == [kind |-> kind, attempt |-> attempt, output |-> output]
Nil == Err("nil", 0, <<>>)

\* ------------------------------------------------------ yt-dlp's output
\* CombinedOutput of one yt-dlp run, as a sequence of words.
OutOther == <<"ERROR:", "unable", "to", "download">>
OutDone == <<"Writing", "video", "subtitles">>
OutNoSubs == <<"There", "are", "no", "subtitles", "for", "the", "requested", "languages">>
OutNoSuitable == <<"WARNING:", "no", "suitable", "subtitles", "found">>
Outputs == {OutOther, OutDone, OutNoSubs, OutNoSuitable}

\* strings.Contains on word sequences: sub occurs contiguously in s.
Contains(s, sub) ==
    \E k \in 1..(Len(s) - Len(sub) + 1) : SubSeq(s, k, k + Len(sub) - 1) = sub

\* The test of lines 173 and 182.
ReportsNoSubtitles(output) ==
    \/ Contains(output, <<"no", "subtitles">>)
    \/ Contains(output, <<"no", "suitable", "subtitles", "found">>)

\* ------------------------------------------------------- parsed subtitles
\* What astisub.OpenFile may return for an artifact: Items, each a sequence
\* of Lines, each a sequence of LineItems' Text.
SubsInputs ==
    { <<>>,
      << << << <<SP>> >> >>, << >> >>,
      << << << <<"t">>, <<SP, "u">> >> >>, << << <<"v", SP>> >> >> >> }

RECURSIVE LineText(_)
LineText(lineItems) ==
    IF lineItems = <<>> THEN <<>>
    ELSE Head(lineItems) \o <<SP>> \o LineText(Tail(lineItems))

RECURSIVE LinesText(_)
LinesText(lines) ==
    IF lines = <<>> THEN <<>> ELSE LineText(Head(lines)) \o LinesText(Tail(lines))

RECURSIVE ItemsText(_)
ItemsText(items) ==
    IF items = <<>> THEN <<>>
    ELSE LinesText(Head(items)) \o <<SP>> \o ItemsText(Tail(items))

\* Mutant: the transcript is not trimmed.
FullTranscriptUntrimmed(subs) == ItemsText(subs)

\* Lines 220-230: the transcript built from the parsed subtitles.
FullTranscript(subs) == TrimSpace(ItemsText(subs))

\* ---------------------------------------------------- Gemini's responses
\* What GenerateContent may return: an error (a timeout included), no
\* candidate or part, a part that is no genai.Text, or a text part.
GeminiTexts == { <<SP>>, <<"s">>, <<SP, "s", SP>> }
GeminiResponses ==
    { [kind |-> k, text |-> <<>>] : k \in {"error", "nocandidates", "notext"} }
    \cup { [kind |-> "text", text |-> t] : t \in GeminiTexts }

\* ---------------------------------------------------------------- state
VARIABLES
    mainPc,          \* where main() is
    cfg,             \* *AppConfig
    geminiClient,    \* geminiClient != nil
    videos,          \* []VideoDetails, by id
    dispatchIdx,     \* index of the range loop of line 326
    wg,              \* the WaitGroup's counter
    semaphore,       \* number of tokens in the semaphore channel
    resultsChannel,  \* buffered results, oldest first
    closed,          \* close(resultsChannel) has run
    closerPc,        \* where the goroutine of line 382 is
    allResults,      \* map[string]ProcessingResult
    arrivals,        \* the video ids of the results received, in order
    reportIdx,       \* index of the range loop of line 398
    report,          \* what the report loop printed, one entry per iteration
    successfulSummaries,
    videosWithErrors,
    dirExists,       \* cfg.TempTranscriptDir exists
    files,           \* the .vtt files in cfg.TempTranscriptDir, <<id, lang>>
    pc,              \* where each worker goroutine is
    acq,             \* getVideoTranscript's locals, per worker
    stub,            \* the run's surroundings: whether the calls of the
                     \* external fetch are counted, the subtitle languages
                     \* it finds for a video, the values PLAYLIST_ID and
                     \* GEMINI_MODEL may have, the environment as read, and
                     \* how youtube.NewService went
    obs,             \* what that stub has counted for the call in progress
    loc,             \* the worker closure's locals
    sends,           \* results each worker has sent
    releases,        \* semaphore tokens each worker has taken back
    geminiCalls      \* GenerateContent calls made for each worker

vars ==
    << mainPc, cfg, geminiClient, videos, dispatchIdx, wg, semaphore,
       resultsChannel, closed, closerPc, allResults, arrivals, reportIdx,
       report, successfulSummaries, videosWithErrors, dirExists, files, pc, acq,
       stub, obs, loc, sends, releases, geminiCalls >>

mainVars ==
    << mainPc, cfg, geminiClient, videos, dispatchIdx, allResults, arrivals,
       reportIdx, report, successfulSummaries, videosWithErrors >>
closerVars == << closed, closerPc >>
workerCounts == << stub, sends, releases, geminiCalls >>

NoConfig == [YoutubeAPIKey |-> FALSE, GeminiAPIKey |-> FALSE,
             PlaylistID |-> Unset, GeminiModel |-> Unset,
             MaxTranscriptRetries |-> 0, ConcurrencyLimit |-> 0]
\* The environment before initializeAppConfig has read it.
NoEnv == [read |-> FALSE, YOUTUBE_API_KEY |-> FALSE, GEMINI_API_KEY |-> FALSE,
          PLAYLIST_ID |-> Unset, GEMINI_MODEL |-> Unset]
\* The surroundings of a run whose optional variables are unset.
NoStub == [counting |-> FALSE, langs |-> {LangOrder[1]},
           playlistIds |-> {Unset}, geminiModels |-> {Unset},
           env |-> NoEnv, service |-> "none"]
\* No call of getVideoTranscript in progress.
\* (wrote: the subtitle languages this call's attempts have written so far.)
NoAcq == [attempt |-> 0, err |-> Nil, output |-> <<>>, vttFilePath |-> <<>>,
          wrote |-> {}]
NoObs == [calls |-> 0, sleeps |-> 0, transients |-> 0, signalAt |-> 0,
          signalOnError |-> FALSE, okAt |-> 0, lastOutput |-> <<>>,
          located |-> FALSE, parsedOk |-> FALSE, subs |-> <<>>,
          returned |-> FALSE, transcript |-> <<>>, err |-> Nil,
          summarized |-> FALSE, summary |-> <<>>, summaryErr |-> Nil]
\* ProcessingResult{VideoDetails: v}
ProcessingResult(id) == [ID |-> id, Summary |-> <<>>, Err |-> Nil]
NoLoc == [transcript |-> <<>>, transcriptErr |-> Nil, result |-> ProcessingResult(NoId)]
\* A map lookup that finds nothing.
Missing == [ID |-> NoId, Summary |-> <<>>, Err |-> Err("missing", 0, <<>>)]

Init ==
    /\ mainPc = "initializeAppConfig"
    /\ cfg = NoConfig
    /\ geminiClient = FALSE
    /\ videos = <<>>
    /\ dispatchIdx = 0
    /\ wg = 0
    /\ semaphore = 0
    /\ resultsChannel = <<>>
    /\ closed = FALSE
    /\ closerPc = "none"
    /\ allResults = [id \in IDs |-> Missing]
    /\ arrivals = <<>>
    /\ reportIdx = 0
    /\ report = <<>>
    /\ successfulSummaries = 0
    /\ videosWithErrors = 0
    /\ dirExists = FALSE
    /\ files = {}
    /\ pc = [i \in Workers |-> "idle"]
    /\ acq = [i \in Workers |-> NoAcq]
    /\ stub = NoStub
    /\ obs = [i \in Workers |-> NoObs]
    /\ loc = [i \in Workers |-> NoLoc]
    /\ sends = [i \in Workers |-> 0]
    /\ releases = [i \in Workers |-> 0]
    /\ geminiCalls = [i \in Workers |-> 0]

\* ------------------------------------------------------------- start-up
\* Lines 75-80.
getEnvWithDefault(value, defaultValue) == IF value # Unset THEN value ELSE defaultValue

\* Mutant: the Gemini key is demanded as well.
MissingAnyKey(env) == ~env.YOUTUBE_API_KEY \/ ~env.GEMINI_API_KEY

\* Line 95: the test that makes initializeAppConfig fail.
MissingMandatory(env) == ~env.YOUTUBE_API_KEY

\* Lines 82-99 and 270-273: the environment is read; a missing
\* YOUTUBE_API_KEY is fatal, unset optional variables take their defaults.
InitializeAppConfig ==
    /\ mainPc = "initializeAppConfig"
    /\ \E youtubeKey \in BOOLEAN, geminiKey \in BOOLEAN,
          playlistId \in stub.playlistIds, geminiModel \in stub.geminiModels,
          limit \in 1..MaxConcurrencyLimit :
          LET env == [read |-> TRUE, YOUTUBE_API_KEY |-> youtubeKey,
                      GEMINI_API_KEY |-> geminiKey,
                      PLAYLIST_ID |-> playlistId, GEMINI_MODEL |-> geminiModel]
          IN /\ stub' = [stub EXCEPT !.env = env]
             /\ IF MissingMandatory(env)
                THEN /\ mainPc' = "fatal"
                     /\ cfg' = cfg
                ELSE /\ mainPc' = "newGeminiClient"
                     /\ cfg' = [YoutubeAPIKey |-> env.YOUTUBE_API_KEY,
                                GeminiAPIKey |-> env.GEMINI_API_KEY,
                                PlaylistID |-> getEnvWithDefault(env.PLAYLIST_ID, defaultPlaylistID),
                                GeminiModel |-> getEnvWithDefault(env.GEMINI_MODEL, defaultGeminiModel),
                                MaxTranscriptRetries |-> defaultMaxTranscriptRetries,
                                ConcurrencyLimit |-> limit]
    /\ UNCHANGED << geminiClient, videos, dispatchIdx, wg, semaphore,
                    resultsChannel, closerVars, allResults, arrivals, reportIdx, report,
                    successfulSummaries, videosWithErrors, dirExists, files,
                    pc, acq, obs, loc, sends, releases, geminiCalls >>

\* Mutant: the client is made whether or not there is a key.
ClientWithoutKey(key, clientOk) == clientOk

\* Lines 294-302: geminiClient != nil after the construction: the key is
\* there and genai.NewClient has not failed.
ClientAvailable(key, clientOk) == key /\ clientOk

\* Lines 293-302: the client stays nil without a key or when NewClient fails.
NewGeminiClient ==
    /\ mainPc = "newGeminiClient"
    /\ \E clientOk \in BOOLEAN :
          geminiClient' = ClientAvailable(cfg.GeminiAPIKey, clientOk)
    /\ mainPc' = "getYouTubeService"
    /\ UNCHANGED << cfg, videos, dispatchIdx, wg, semaphore, resultsChannel,
                    closerVars, allResults, arrivals, reportIdx, report,
                    successfulSummaries, videosWithErrors, dirExists, files,
                    pc, acq, obs, loc, workerCounts >>

\* Mutant: the error of getYouTubeService is not looked at.
AfterServiceIgnoresErr(serviceOk) == "getPlaylistVideos"

\* Lines 305-307: a service that cannot be constructed is fatal.
AfterService(serviceOk) == IF serviceOk THEN "getPlaylistVideos" ELSE "fatal"

\* Lines 304-308.
GetYouTubeService ==
    /\ mainPc = "getYouTubeService"
    /\ \E serviceOk \in BOOLEAN :
          /\ mainPc' = AfterService(serviceOk)
          /\ stub' = [stub EXCEPT !.service = IF serviceOk THEN "ok" ELSE "failed"]
    /\ UNCHANGED << cfg, geminiClient, videos, dispatchIdx, wg, semaphore,
                    resultsChannel, closerVars, allResults, arrivals, reportIdx, report,
                    successfulSummaries, videosWithErrors, dirExists, files,
                    pc, acq, obs, loc, sends, releases, geminiCalls >>

\* The playlists the listing API may return: all pages' items in order.
RECURSIVE SeqsUpTo(_, _)
SeqsUpTo(S, n) ==
    IF n = 0 THEN {<<>>}
    ELSE LET shorter == SeqsUpTo(S, n - 1)
         IN shorter \cup {Append(s, x) : s \in {t \in shorter : Len(t) = n - 1}, x \in S}

\* The position of the first item with video id id (0: none).
FirstAt(items, id) ==
    IF \E k \in 1..Len(items) : items[k] = id
    THEN CHOOSE k \in 1..Len(items) : items[k] = id /\ \A j \in 1..(k - 1) : items[j] # id
    ELSE 0

\* Video ids are only compared with each other (map key, file name), so
\* playlists are taken up to renaming: the ids first appear in IdOrder.
PlaylistInputs ==
    {items \in SeqsUpTo(IDs \cup {NoId}, MaxVideos + 1) :
        /\ Cardinality({k \in 1..Len(items) : items[k] # NoId}) <= MaxVideos
        /\ \A m \in 2..Len(IdOrder) :
              FirstAt(items, IdOrder[m]) # 0 =>
                 /\ FirstAt(items, IdOrder[m - 1]) # 0
                 /\ FirstAt(items, IdOrder[m - 1]) < FirstAt(items, IdOrder[m])}

\* Lines 126-135: items without details or video id are skipped, the others
\* are appended in order.
RECURSIVE PlaylistVideos(_)
PlaylistVideos(items) ==
    IF items = <<>> THEN <<>>
    ELSE IF Head(items) # NoId
         THEN <<Head(items)>> \o PlaylistVideos(Tail(items))
         ELSE PlaylistVideos(Tail(items))

\* Lines 310-324: the listing fails (fatal), is empty (return) or yields the
\* videos; then the channels are made.
GetPlaylistVideos ==
    /\ mainPc = "getPlaylistVideos"
    /\ \E listOk \in BOOLEAN, items \in PlaylistInputs :
          IF ~listOk
          THEN /\ mainPc' = "fatal"
               /\ videos' = videos
          ELSE /\ videos' = PlaylistVideos(items)
               /\ mainPc' = IF Len(videos') = 0 THEN "returned" ELSE "loop"
    /\ dispatchIdx' = 0
    /\ UNCHANGED << cfg, geminiClient, wg, semaphore, resultsChannel,
                    closerVars, allResults, arrivals, reportIdx, report,
                    successfulSummaries, videosWithErrors, dirExists, files,
                    pc, acq, obs, loc, workerCounts >>

\* -------------------------------------------------------- dispatch loop
\* Line 326, 327: the next video of the range loop, and wg.Add(1).
WgAdd ==
    /\ mainPc = "loop"
    /\ dispatchIdx < Len(videos)
    /\ dispatchIdx' = dispatchIdx + 1
    /\ wg' = wg + 1
    /\ mainPc' = "acquire"
    /\ UNCHANGED << cfg, geminiClient, videos, semaphore, resultsChannel,
                    closerVars, allResults, arrivals, reportIdx, report,
                    successfulSummaries, videosWithErrors, dirExists, files,
                    pc, acq, obs, loc, workerCounts >>

\* Mutant: the dispatch loop never waits for a slot.
SemaphoreNeverFull == TRUE

\* A send on the semaphore channel (capacity cfg.ConcurrencyLimit) can proceed.
SemaphoreHasRoom == semaphore < cfg.ConcurrencyLimit

\* Line 328: semaphore <- struct{}{} blocks while the channel is full.
AcquireSlot ==
    /\ mainPc = "acquire"
    /\ SemaphoreHasRoom
    /\ semaphore' = semaphore + 1
    /\ mainPc' = "go"
    /\ UNCHANGED << cfg, geminiClient, videos, dispatchIdx, wg, resultsChannel,
                    closerVars, allResults, arrivals, reportIdx, report,
                    successfulSummaries, videosWithErrors, dirExists, files,
                    pc, acq, obs, loc, workerCounts >>

\* Lines 330, 379: the go statement starts the worker of the current video.
GoWorker ==
    /\ mainPc = "go"
    /\ pc' = [pc EXCEPT ![dispatchIdx] = "start"]
    /\ mainPc' = "loop"
    /\ UNCHANGED << cfg, geminiClient, videos, dispatchIdx, wg, semaphore,
                    resultsChannel, closerVars, allResults, arrivals, reportIdx, report,
                    successfulSummaries, videosWithErrors, dirExists, files,
                    acq, obs, loc, workerCounts >>

\* Lines 382-388: after the loop the closer goroutine is started and main
\* goes on to collect.
StartCloser ==
    /\ mainPc = "loop"
    /\ dispatchIdx = Len(videos)
    /\ closerPc' = "wait"
    /\ mainPc' = "collect"
    /\ UNCHANGED << cfg, geminiClient, videos, dispatchIdx, wg, semaphore,
                    resultsChannel, closed, allResults, arrivals, reportIdx, report,
                    successfulSummaries, videosWithErrors, dirExists, files,
                    pc, acq, obs, loc, workerCounts >>

\* ------------------------------------------------------ worker goroutine
\* Mutant: an empty transcript is handed to the summarizer as well.
WorkerBranchSummarizesEmpty(transcript, transcriptErr, client) ==
    IF transcriptErr # Nil THEN "failed"
    ELSE IF client THEN "summarize"
    ELSE IF transcript = <<>> THEN "absent"
    ELSE "skipped"

\* Mutant: the missing client is looked at before the empty transcript.
WorkerBranchSkipsFirst(transcript, transcriptErr, client) ==
    IF transcriptErr # Nil THEN "failed"
    ELSE IF ~client THEN "skipped"
    ELSE IF transcript = <<>> THEN "absent"
    ELSE "summarize"

\* Lines 339-377: what the worker does with (transcript, transcriptErr):
\* it summarizes only a non-empty transcript fetched without error, and only
\* with a Gemini client.
WorkerBranch(transcript, transcriptErr, client) ==
    IF transcriptErr # Nil THEN "failed"
    ELSE IF transcript = <<>> THEN "absent"
    ELSE IF client THEN "summarize"
    ELSE "skipped"

\* Lines 339-348 and 370-376: the result of a worker that does not
\* summarize, cur being its currentProcessingResult.
ResultWithoutSummary(cur, branch, transcriptErr) ==
    CASE branch = "failed" -> [cur EXCEPT !.Err = transcriptErr]
      [] branch = "absent" -> [cur EXCEPT !.Err = Err("no transcript available", 0, <<>>)]
      [] branch = "skipped" ->
            [cur EXCEPT !.Err = IF cur.Err = Nil
                                THEN Err("summarization skipped", 0, <<>>)
                                ELSE cur.Err]
      [] OTHER -> cur

\* ---------------------------------------------------- getVideoTranscript
\* getVideoTranscript returns (transcript, err) to worker i, which goes on
\* to line 339: it either has its result and is about to send it, or is
\* about to summarize.  Locals that are dead from here on are cleared.
Return(i, transcript, err, counted) ==
    LET branch == WorkerBranch(transcript, err, geminiClient)
        cur == ProcessingResult(videos[i])
    IN /\ acq' = [acq EXCEPT ![i] = NoAcq]
       /\ obs' = IF ~stub.counting THEN obs
                 ELSE [obs EXCEPT ![i] = [counted EXCEPT !.returned = TRUE,
                                                         !.transcript = transcript,
                                                         !.err = err]]
       /\ IF branch = "summarize"
          THEN /\ loc' = [loc EXCEPT ![i] = [transcript |-> transcript,
                                            transcriptErr |-> err,
                                            result |-> cur]]
               /\ pc' = [pc EXCEPT ![i] = "summarize"]
          ELSE /\ loc' = [loc EXCEPT ![i] = [NoLoc EXCEPT
                             !.result = ResultWithoutSummary(cur, branch, err)]]
               /\ pc' = [pc EXCEPT ![i] = "send"]

\* Lines 334-336 and 147-150: the worker starts, sets up its result and
\* enters getVideoTranscript, whose MkdirAll may fail.
WorkerStart(i) ==
    /\ pc[i] = "start"
    /\ \E mkdirOk \in BOOLEAN :
          IF mkdirOk
          THEN /\ dirExists' = TRUE
               /\ loc' = [loc EXCEPT ![i] = [NoLoc EXCEPT !.result = ProcessingResult(videos[i])]]
               /\ acq' = [acq EXCEPT ![i] = [NoAcq EXCEPT !.attempt = 1]]
               /\ pc' = [pc EXCEPT ![i] = "fetch"]
               /\ obs' = obs
          ELSE /\ dirExists' = dirExists
               /\ Return(i, <<>>, Err("mkdir", 0, <<>>), obs[i])
    /\ UNCHANGED << mainVars, wg, semaphore, resultsChannel, closerVars, files,
                    workerCounts >>

\* Mutant: the no-subtitles test is made only after a successful exit.
AfterAttemptRetriesAbsence(exitOk, output, attempt, maxRetries) ==
    IF exitOk
    THEN IF ReportsNoSubtitles(output) THEN "absent" ELSE "glob"
    ELSE IF attempt < maxRetries THEN "sleep" ELSE "failed"

\* Mutant: the delay is waited after the final attempt too (<= for <), so
\* the loop comes round once more.
AfterAttemptSleepsAfterLast(exitOk, output, attempt, maxRetries) ==
    IF exitOk
    THEN IF ReportsNoSubtitles(output) THEN "absent" ELSE "glob"
    ELSE IF ReportsNoSubtitles(output) THEN "absent"
         ELSE IF attempt <= maxRetries THEN "sleep" ELSE "failed"

\* Mutant: a successful attempt does not leave the loop (the break of line
\* 177 is missing) before the last attempt.
AfterAttemptNoBreak(exitOk, output, attempt, maxRetries) ==
    IF ReportsNoSubtitles(output) THEN "absent"
    ELSE IF attempt < maxRetries THEN "sleep"
    ELSE IF exitOk THEN "glob" ELSE "failed"

\* Lines 170-190: where the retry loop goes after an attempt that exited
\* with exitOk and printed output.
AfterAttempt(exitOk, output, attempt, maxRetries) ==
    IF exitOk
    THEN IF ReportsNoSubtitles(output) THEN "absent" ELSE "glob"
    ELSE IF ReportsNoSubtitles(output) THEN "absent"
         ELSE IF attempt < maxRetries THEN "sleep" ELSE "failed"

\* Lines 157-194: one attempt of the retry loop.  yt-dlp exits with or
\* without an error, prints its output and may have written subtitle files.
Fetch(i) ==
    /\ pc[i] = "fetch"
    /\ \E exitOk \in BOOLEAN, output \in Outputs, wrote \in SUBSET stub.langs :
          LET attempt == acq[i].attempt
              err == IF exitOk THEN Nil ELSE Err("exit", attempt, <<>>)
              signal == ReportsNoSubtitles(output)
              next == AfterAttempt(exitOk, output, attempt, cfg.MaxTranscriptRetries)
              counted == [obs[i] EXCEPT
                             !.calls = @ + 1,
                             !.lastOutput = output,
                             !.transients = IF ~exitOk /\ ~signal THEN @ + 1 ELSE @,
                             !.signalAt = IF signal /\ @ = 0 THEN attempt ELSE @,
                             !.signalOnError = IF signal THEN ~exitOk ELSE @,
                             !.okAt = IF exitOk /\ ~signal /\ @ = 0 THEN attempt ELSE @]
          IN /\ files' = files \cup {<<videos[i], l>> : l \in wrote}
             /\ CASE next = "absent" -> Return(i, <<>>, Nil, counted)
                  [] next = "failed" ->
                        Return(i, <<>>, Err("yt-dlp failed", err.attempt, output), counted)
                  [] next = "sleep" ->
                        /\ acq' = [acq EXCEPT ![i].err = err, ![i].output = output,
                                               ![i].wrote = @ \cup wrote]
                        /\ obs' = IF stub.counting THEN [obs EXCEPT ![i] = counted] ELSE obs
                        /\ pc' = [pc EXCEPT ![i] = "sleep"]
                        /\ loc' = loc
                  [] OTHER ->
                        /\ acq' = [acq EXCEPT ![i] = [NoAcq EXCEPT !.wrote = acq[i].wrote \cup wrote]]
                        /\ obs' = IF stub.counting THEN [obs EXCEPT ![i] = counted] ELSE obs
                        /\ pc' = [pc EXCEPT ![i] = "glob"]
                        /\ loc' = loc
    /\ UNCHANGED << mainVars, wg, semaphore, resultsChannel, closerVars,
                    dirExists, workerCounts >>

\* Lines 186-192: the retry delay has passed; attempt++ and the loop's test
\* follow (the attempt after the last is not made: the call fails).
Sleep(i) ==
    /\ pc[i] = "sleep"
    /\ LET counted == [obs[i] EXCEPT !.sleeps = @ + 1]
       IN IF acq[i].attempt + 1 <= cfg.MaxTranscriptRetries
          THEN /\ obs' = IF stub.counting THEN [obs EXCEPT ![i] = counted] ELSE obs
               /\ acq' = [acq EXCEPT ![i].attempt = @ + 1]
               /\ pc' = [pc EXCEPT ![i] = "fetch"]
               /\ loc' = loc
          ELSE Return(i, <<>>,
                      Err("yt-dlp failed", acq[i].err.attempt, acq[i].output), counted)
    /\ UNCHANGED << mainVars, wg, semaphore, resultsChannel, closerVars,
                    dirExists, files, workerCounts >>

\* filepath.Glob for "<id>.*.vtt": the matching files in lexical order.
GlobLang(id) ==
    SelectSeq([k \in 1..Len(LangOrder) |-> <<id, LangOrder[k]>>],
              LAMBDA f : f \in files)

\* filepath.Glob for the fallback "<id>.vtt".
GlobPlain(id) == IF <<id, NoLang>> \in files THEN << <<id, NoLang>> >> ELSE <<>>

\* Lines 201-212: the matches the parse step works with.
Matches(id) == IF Len(GlobLang(id)) = 0 THEN GlobPlain(id) ELSE GlobLang(id)

\* Lines 201-214: no artifact is "no transcript"; otherwise the first match
\* is the file to parse.
Glob(i) ==
    /\ pc[i] = "glob"
    /\ LET matches == Matches(videos[i])
       IN IF Len(matches) = 0
          THEN Return(i, <<>>, Nil, obs[i])
          ELSE /\ acq' = [acq EXCEPT ![i].vttFilePath = matches[1]]
               /\ pc' = [pc EXCEPT ![i] = "parse"]
               /\ loc' = loc
               /\ obs' = IF stub.counting THEN [obs EXCEPT ![i].located = TRUE] ELSE obs
    /\ UNCHANGED << mainVars, wg, semaphore, resultsChannel, closerVars,
                    dirExists, files, workerCounts >>

\* Lines 214-236: the file is opened and parsed, the transcript built, and
\* the deferred os.Remove runs on every return.  A file that is gone cannot
\* be opened.
Parse(i) ==
    /\ pc[i] = "parse"
    /\ LET path == acq[i].vttFilePath
       IN /\ \E openOk \in (IF path \in files THEN BOOLEAN ELSE {FALSE}),
                subs \in SubsInputs :
                IF ~openOk
                THEN Return(i, <<>>, Err("open/parse", 0, <<>>), obs[i])
                ELSE Return(i, FullTranscript(subs), Nil,
                            [obs[i] EXCEPT !.parsedOk = TRUE, !.subs = subs])
          /\ files' = files \ {path}
    /\ UNCHANGED << mainVars, wg, semaphore, resultsChannel, closerVars,
                    dirExists, workerCounts >>

\* ----------------------------------------------------------- summarizing
\* Lines 240-243: an empty transcript is answered without calling Gemini.
CallsGemini(transcript) == transcript # <<>>

\* Lines 240-261: (summary, err) for Gemini's response resp.
summarizeTranscriptWithGemini(transcript, resp) ==
    IF ~CallsGemini(transcript)
    THEN [summary |-> <<"Transcript", "was", "empty">>, err |-> Nil]
    ELSE CASE resp.kind = "error" ->
                 [summary |-> <<>>, err |-> Err("gemini GenerateContent failed", 0, <<>>)]
           [] resp.kind = "nocandidates" ->
                 [summary |-> <<>>, err |-> Err("gemini returned no content candidates", 0, <<>>)]
           [] resp.kind = "notext" ->
                 [summary |-> <<>>, err |-> Err("gemini returned unexpected content part type", 0, <<>>)]
           [] OTHER ->
                 [summary |-> TrimSpace(resp.text), err |-> Nil]

\* Mutant: a failed GenerateContent is tried once more.
GenerateContentCallsRetried(transcript, resp) ==
    IF ~CallsGemini(transcript) THEN 0
    ELSE IF resp.kind = "error" THEN 2 ELSE 1

\* Lines 241-252: the GenerateContent calls one call of
\* summarizeTranscriptWithGemini makes, resp being the response it works with.
GenerateContentCalls(transcript, resp) == IF CallsGemini(transcript) THEN 1 ELSE 0

\* Lines 359-369: the summarizer is called once and its outcome stored.
Summarize(i) ==
    /\ pc[i] = "summarize"
    /\ \E resp \in GeminiResponses :
          LET out == summarizeTranscriptWithGemini(loc[i].transcript, resp)
              cur == loc[i].result
          IN /\ loc' = [loc EXCEPT ![i] = [NoLoc EXCEPT
                        !.result = IF out.err # Nil
                                   THEN [cur EXCEPT !.Err = out.err]
                                   ELSE [cur EXCEPT !.Summary = TrimSpace(out.summary)]]]
             /\ obs' = IF ~stub.counting THEN obs
                       ELSE [obs EXCEPT ![i].summarized = TRUE,
                                        ![i].summary = out.summary,
                                        ![i].summaryErr = out.err]
             /\ geminiCalls' = [geminiCalls EXCEPT
                                   ![i] = @ + GenerateContentCalls(loc[i].transcript, resp)]
    /\ pc' = [pc EXCEPT ![i] = "send"]
    /\ UNCHANGED << mainVars, wg, semaphore, resultsChannel, closerVars,
                    dirExists, files, acq, stub, sends, releases >>

\* Mutant: the channel is made without a buffer, so that a send proceeds
\* only while main is receiving.
ResultsUnbuffered == mainPc = "collect" /\ resultsChannel = <<>>

\* A send on resultsChannel (capacity len(videos)) can proceed.
ResultsHasRoom == Len(resultsChannel) < Len(videos)

\* Mutant: the slot is not given back (the defer of line 332 is missing).
DeferredWithoutRelease == <<"wgDone", "wgDone", "exited">>

\* The deferred calls a worker runs after its send, first to last.
Deferred == <<"release", "wgDone", "exited">>

\* Lines 342 and 378: the worker's one send of its result.
Send(i) ==
    /\ pc[i] = "send"
    /\ ResultsHasRoom
    /\ resultsChannel' = Append(resultsChannel, loc[i].result)
    /\ sends' = [sends EXCEPT ![i] = @ + 1]
    /\ loc' = [loc EXCEPT ![i] = NoLoc]
    /\ obs' = [obs EXCEPT ![i] = NoObs]
    /\ pc' = [pc EXCEPT ![i] = Deferred[1]]
    /\ UNCHANGED << mainVars, wg, semaphore, closerVars, dirExists, files,
                    acq, stub, releases, geminiCalls >>

\* Line 332: the deferred <-semaphore gives the slot back.
Release(i) ==
    /\ pc[i] = "release"
    /\ semaphore > 0
    /\ semaphore' = semaphore - 1
    /\ releases' = [releases EXCEPT ![i] = @ + 1]
    /\ pc' = [pc EXCEPT ![i] = Deferred[2]]
    /\ UNCHANGED << mainVars, wg, resultsChannel, closerVars, dirExists,
                    files, acq, obs, loc, stub, sends, geminiCalls >>

\* Line 331: the deferred wg.Done(), after which the goroutine is gone.
WgDone(i) ==
    /\ pc[i] = "wgDone"
    /\ wg' = wg - 1
    /\ pc' = [pc EXCEPT ![i] = Deferred[3]]
    /\ UNCHANGED << mainVars, semaphore, resultsChannel, closerVars,
                    dirExists, files, acq, obs, loc, workerCounts >>

\* ------------------------------------------------- closer and collection
\* Mutant: the closer does not wait for the workers.
WaitReturnsAtOnce == TRUE

\* wg.Wait() returns.
WaitReturns == wg = 0

\* Line 383.
CloserWait ==
    /\ closerPc = "wait"
    /\ WaitReturns
    /\ closerPc' = "close"
    /\ UNCHANGED << mainVars, wg, semaphore, resultsChannel, closed,
                    dirExists, files, pc, acq, obs, loc, workerCounts >>

\* Line 384.
CloserClose ==
    /\ closerPc = "close"
    /\ closed' = TRUE
    /\ closerPc' = "done"
    /\ UNCHANGED << mainVars, wg, semaphore, resultsChannel, dirExists,
                    files, pc, acq, obs, loc, workerCounts >>

\* Lines 389-391: one received result is stored under its video id.
CollectResult ==
    /\ mainPc = "collect"
    /\ resultsChannel # <<>>
    /\ allResults' = [allResults EXCEPT ![Head(resultsChannel).ID] = Head(resultsChannel)]
    /\ arrivals' = Append(arrivals, Head(resultsChannel).ID)
    /\ resultsChannel' = Tail(resultsChannel)
    /\ UNCHANGED << mainPc, cfg, geminiClient, videos, dispatchIdx, wg,
                    semaphore, closerVars, reportIdx, report,
                    successfulSummaries, videosWithErrors, dirExists, files,
                    pc, acq, obs, loc, workerCounts >>

\* Mutant: the range loop ends as soon as the channel is found empty.
RangeEndsWhenEmpty == resultsChannel = <<>>

\* A range over a channel ends when the channel is closed and drained.
RangeEnds == resultsChannel = <<>> /\ closed

\* Line 389: the end of the collection loop.
CollectEnd ==
    /\ mainPc = "collect"
    /\ RangeEnds
    /\ mainPc' = "report"
    /\ UNCHANGED << cfg, geminiClient, videos, dispatchIdx, wg, semaphore,
                    resultsChannel, closerVars, allResults, arrivals, reportIdx, report,
                    successfulSummaries, videosWithErrors, dirExists, files,
                    pc, acq, obs, loc, workerCounts >>

\* ---------------------------------------------------------------- report
\* Mutant: the report follows the order in which the results arrived.
ReportVideoByArrival(k) == arrivals[k]

\* Line 398: the video the report loop handles in its k-th iteration.
ReportVideo(k) == videos[k]

\* Lines 399-419: what one iteration prints.
ReportEntry(id) ==
    LET result == allResults[id]
    IN IF result = Missing
       THEN [ID |-> id, Summary |-> <<>>, Status |-> "Result missing."]
       ELSE [ID |-> result.ID,
             Summary |-> result.Summary,
             Status |-> IF result.Err # Nil THEN result.Err.kind
                        ELSE IF result.Summary = <<>> THEN "No summary generated"
                        ELSE ""]

\* Lines 398-420: one iteration of the report loop.
ReportNext ==
    /\ mainPc = "report"
    /\ reportIdx < Len(videos)
    /\ LET id == ReportVideo(reportIdx + 1)
           result == allResults[id]
       IN /\ report' = Append(report, ReportEntry(id))
          /\ successfulSummaries' =
                IF result # Missing /\ result.Summary # <<>>
                THEN successfulSummaries + 1 ELSE successfulSummaries
          /\ videosWithErrors' =
                IF result = Missing \/ result.Err # Nil
                THEN videosWithErrors + 1 ELSE videosWithErrors
    /\ reportIdx' = reportIdx + 1
    /\ UNCHANGED << mainPc, cfg, geminiClient, videos, dispatchIdx, wg,
                    semaphore, resultsChannel, closerVars, allResults, arrivals,
                    dirExists, files, pc, acq, obs, loc, workerCounts >>

\* Lines 421-423.
ReportEnd ==
    /\ mainPc = "report"
    /\ reportIdx = Len(videos)
    /\ mainPc' = "removeAll"
    /\ UNCHANGED << cfg, geminiClient, videos, dispatchIdx, wg, semaphore,
                    resultsChannel, closerVars, allResults, arrivals, reportIdx, report,
                    successfulSummaries, videosWithErrors, dirExists, files,
                    pc, acq, obs, loc, workerCounts >>

\* Lines 425-430: os.RemoveAll removes the directory with all its files, or
\* fails with a warning.
RemoveAll ==
    /\ mainPc = "removeAll"
    /\ \E removed \in BOOLEAN :
          IF removed
          THEN files' = {} /\ dirExists' = FALSE
          ELSE UNCHANGED << files, dirExists >>
    /\ mainPc' = "finished"
    /\ UNCHANGED << cfg, geminiClient, videos, dispatchIdx, wg, semaphore,
                    resultsChannel, closerVars, allResults, arrivals, reportIdx, report,
                    successfulSummaries, videosWithErrors, pc, acq, obs, loc,
                    workerCounts >>

\* ------------------------------------------------------- specification
Next ==
    \/ InitializeAppConfig
    \/ NewGeminiClient
    \/ GetYouTubeService
    \/ GetPlaylistVideos
    \/ WgAdd
    \/ AcquireSlot
    \/ GoWorker
    \/ StartCloser
    \/ \E i \in Workers : WorkerStart(i)
    \/ \E i \in Workers : Fetch(i)
    \/ \E i \in Workers : Sleep(i)
    \/ \E i \in Workers : Glob(i)
    \/ \E i \in Workers : Parse(i)
    \/ \E i \in Workers : Summarize(i)
    \/ \E i \in Workers : Send(i)
    \/ \E i \in Workers : Release(i)
    \/ \E i \in Workers : WgDone(i)
    \/ CloserWait
    \/ CloserClose
    \/ CollectResult
    \/ CollectEnd
    \/ ReportNext
    \/ ReportEnd
    \/ RemoveAll

Spec == Init /\ [][Next]_vars

\* ------------------------------------------- the acquirer on its own
\* One call of getVideoTranscript: the run of a one-video playlist from the
\* start of its worker to the return of the call, with a fetch stub that
\* counts its calls and may write any of the subtitle languages.
InitAcquirer ==
    /\ mainPc = "loop"
    /\ \E limit \in 1..MaxConcurrencyLimit, client \in BOOLEAN :
          /\ cfg = [YoutubeAPIKey |-> TRUE,
                    GeminiAPIKey |-> client,
                    PlaylistID |-> defaultPlaylistID,
                    GeminiModel |-> defaultGeminiModel,
                    MaxTranscriptRetries |-> defaultMaxTranscriptRetries,
                    ConcurrencyLimit |-> limit]
          /\ geminiClient = client
    /\ videos = <<IdOrder[1]>>
    /\ dispatchIdx = 1
    /\ wg = 1
    /\ semaphore = 1
    /\ resultsChannel = <<>>
    /\ closed = FALSE
    /\ closerPc = "none"
    /\ allResults = [id \in IDs |-> Missing]
    /\ arrivals = <<>>
    /\ reportIdx = 0
    /\ report = <<>>
    /\ successfulSummaries = 0
    /\ videosWithErrors = 0
    /\ dirExists = FALSE
    /\ files = {}
    /\ pc = [i \in Workers |-> IF i = 1 THEN "start" ELSE "idle"]
    /\ acq = [i \in Workers |-> NoAcq]
    /\ stub = [NoStub EXCEPT !.counting = TRUE, !.langs = Langs,
                             !.env = [read |-> TRUE, YOUTUBE_API_KEY |-> TRUE,
                                      GEMINI_API_KEY |-> geminiClient,
                                      PLAYLIST_ID |-> Unset, GEMINI_MODEL |-> Unset],
                             !.service = "ok"]
    /\ obs = [i \in Workers |-> NoObs]
    /\ loc = [i \in Workers |-> NoLoc]
    /\ sends = [i \in Workers |-> 0]
    /\ releases = [i \in Workers |-> 0]
    /\ geminiCalls = [i \in Workers |-> 0]

NextAcquirer ==
    \/ \E i \in Workers : WorkerStart(i)
    \/ \E i \in Workers : Fetch(i)
    \/ \E i \in Workers : Sleep(i)
    \/ \E i \in Workers : Glob(i)
    \/ \E i \in Workers : Parse(i)

SpecAcquirer == InitAcquirer /\ [][NextAcquirer]_vars

\* --------------------------------------------------- the scheduled run
\* The whole run under the Go scheduler: a goroutine that can take a step
\* eventually takes one, and every external call (yt-dlp, the retry delay,
\* GenerateContent with its timeout) returns.
SpecLive == Init /\ [][Next]_vars /\ WF_vars(Next)

\* ------------------------------------------------ the counted pipeline
\* The whole run, with the calls and outcomes of each worker's acquisition
\* and summarization counted until the worker sends its result.
InitCounted ==
    /\ mainPc = "initializeAppConfig"
    /\ cfg = NoConfig
    /\ geminiClient = FALSE
    /\ videos = <<>>
    /\ dispatchIdx = 0
    /\ wg = 0
    /\ semaphore = 0
    /\ resultsChannel = <<>>
    /\ closed = FALSE
    /\ closerPc = "none"
    /\ allResults = [id \in IDs |-> Missing]
    /\ arrivals = <<>>
    /\ reportIdx = 0
    /\ report = <<>>
    /\ successfulSummaries = 0
    /\ videosWithErrors = 0
    /\ dirExists = FALSE
    /\ files = {}
    /\ pc = [i \in Workers |-> "idle"]
    /\ acq = [i \in Workers |-> NoAcq]
    /\ stub = [NoStub EXCEPT !.counting = TRUE]
    /\ obs = [i \in Workers |-> NoObs]
    /\ loc = [i \in Workers |-> NoLoc]
    /\ sends = [i \in Workers |-> 0]
    /\ releases = [i \in Workers |-> 0]
    /\ geminiCalls = [i \in Workers |-> 0]

SpecCounted == InitCounted /\ [][Next]_vars

\* ------------------------------------------- the run and its environment
\* The whole run, started in an environment that may or may not set the
\* optional variables PLAYLIST_ID and GEMINI_MODEL.
InitEnv ==
    /\ mainPc = "initializeAppConfig"
    /\ cfg = NoConfig
    /\ geminiClient = FALSE
    /\ videos = <<>>
    /\ dispatchIdx = 0
    /\ wg = 0
    /\ semaphore = 0
    /\ resultsChannel = <<>>
    /\ closed = FALSE
    /\ closerPc = "none"
    /\ allResults = [id \in IDs |-> Missing]
    /\ arrivals = <<>>
    /\ reportIdx = 0
    /\ report = <<>>
    /\ successfulSummaries = 0
    /\ videosWithErrors = 0
    /\ dirExists = FALSE
    /\ files = {}
    /\ pc = [i \in Workers |-> "idle"]
    /\ acq = [i \in Workers |-> NoAcq]
    /\ stub = [NoStub EXCEPT !.playlistIds = {Unset, CustomPlaylistID},
                             !.geminiModels = {Unset, CustomGeminiModel}]
    /\ obs = [i \in Workers |-> NoObs]
    /\ loc = [i \in Workers |-> NoLoc]
    /\ sends = [i \in Workers |-> 0]
    /\ releases = [i \in Workers |-> 0]
    /\ geminiCalls = [i \in Workers |-> 0]

SpecEnv == InitEnv /\ [][Next]_vars

\* ---------------------------------------------------------------- claims
\* Where a worker is while it holds its slot: from the go statement to the
\* deferred receive from the semaphore.
HoldingSlot ==
    {"start", "fetch", "sleep", "glob", "parse", "summarize", "send", "release"}
Running == {i \in Workers : pc[i] \in HoldingSlot}
\* main is past the collection loop.
Collected == mainPc \in {"report", "removeAll", "finished"}

\* C1: in every reachable state the workers that were dispatched and have
\* not yet given their slot back are at most cfg.ConcurrencyLimit.
C1_ConcurrencyBounded == Cardinality(Running) <= cfg.ConcurrencyLimit

\* The pool is full with a worker inside its external call, and the dispatch
\* loop is blocked on the semaphore with a further video to hand out.
C1_Witness ==
    /\ mainPc = "acquire"
    /\ Cardinality(Running) = cfg.ConcurrencyLimit
    /\ \E i \in Running : pc[i] \in {"fetch", "summarize"}

\* C2: once collection has ended the Batch holds as many results as there
\* are work items.
C2_OneResultPerItem ==
    Collected => Cardinality({id \in IDs : allResults[id] # Missing}) = Len(videos)

\* C3: the ids the report lists are the ids of the videos, in the order of
\* the video list, one entry per video once the report is complete.
C3_ReportInInputOrder ==
    /\ Len(report) <= Len(videos)
    /\ \A k \in 1..Len(report) : report[k].ID = videos[k]
    /\ mainPc \in {"removeAll", "finished"} => Len(report) = Len(videos)

\* Two different videos whose results arrived in reverse order, reported.
C3_Witness ==
    /\ mainPc = "finished"
    /\ Len(videos) = 2
    /\ videos[1] # videos[2]
    /\ arrivals = <<videos[2], videos[1]>>
    /\ Len(report) = 2

\* C4: no worker sends twice, a worker that is past its send has sent once,
\* the channel is closed only after every dispatched worker has sent and
\* exited (so nothing is sent after the close), and collection ends only
\* closed, drained and with one result received per video.
C4_OneResultPerWorker ==
    /\ \A i \in Workers : sends[i] <= 1
    /\ \A i \in Workers : pc[i] \in {"release", "wgDone", "exited"} => sends[i] = 1
    /\ closerPc \in {"close", "done"} =>
          \A i \in 1..Len(videos) : pc[i] = "exited" /\ sends[i] = 1
    /\ closed => closerPc = "done"
    /\ Collected => /\ closed
                    /\ resultsChannel = <<>>
                    /\ Len(arrivals) = Len(videos)

\* The batch of a full playlist is complete.
C4_Witness ==
    /\ mainPc = "report"
    /\ Len(videos) = MaxVideos
    /\ Len(arrivals) = MaxVideos

\* C5: no worker's outcome reaches another worker: every dispatched worker
\* runs to its end whatever the others do, and the artifact a worker's own
\* fetch wrote is there when the worker looks for it and when it opens it,
\* so that its result is the same whatever the other workers' outcomes are.
C5_FailureIsolation ==
    /\ Collected => \A i \in 1..Len(videos) : pc[i] = "exited" /\ sends[i] = 1
    /\ \A i \in Workers :
          /\ (pc[i] = "glob" /\ acq[i].wrote # {}) => Len(Matches(videos[i])) > 0
          /\ pc[i] = "parse" => acq[i].vttFilePath \in files

\* C6: the tokens in the semaphore are those of the running workers (and of
\* the worker main is about to start), each worker gives its token back
\* exactly when it passes its deferred receive, and none is held once all
\* workers have exited.
C6_SlotHeldAndReleasedOnce ==
    /\ semaphore = Cardinality(Running) + (IF mainPc = "go" THEN 1 ELSE 0)
    /\ \A i \in Workers :
          releases[i] = IF pc[i] \in {"wgDone", "exited"} THEN 1 ELSE 0
    /\ semaphore >= 0
    /\ closerPc \in {"close", "done"} => semaphore = 0

\* All workers are done and the pool is empty after one worker failed to
\* acquire its transcript and another one produced a summary.
C6_Witness ==
    /\ Collected
    /\ semaphore = 0
    /\ \E id \in IDs : allResults[id].Err.kind = "yt-dlp failed"
    /\ \E id \in IDs : allResults[id].Summary # <<>>

\* C7: the attempt that reports "no subtitles", with or without an error
\* exit, is the last thing the call does: it has returned at once with an
\* empty transcript and no error, the fetch was called as often as that
\* attempt's number (once, if it was the first) and the delay was only
\* waited between the attempts before it.
C7_AbsenceEndsTheCall ==
    \A i \in Workers :
       obs[i].signalAt # 0 =>
          /\ obs[i].returned
          /\ obs[i].transcript = <<>>
          /\ obs[i].err = Nil
          /\ obs[i].calls = obs[i].signalAt
          /\ obs[i].sleeps = obs[i].signalAt - 1
          /\ pc[i] = "send"
          /\ loc[i].result.Err.kind = "no transcript available"

\* The second attempt exits with an error and reports "no subtitles".
C7_Witness ==
    \E i \in Workers :
       /\ obs[i].signalAt = 2
       /\ obs[i].signalOnError
       /\ obs[i].returned

\* C8: the fetch is never called more than MaxTranscriptRetries times and
\* the delay is waited only between attempts; a call all of whose attempts
\* failed transiently returns after exactly MaxTranscriptRetries attempts
\* and MaxTranscriptRetries - 1 delays, with the failure that wraps the last
\* attempt's error.
C8_TransientFailuresExhaustRetries ==
    \A i \in Workers :
       /\ obs[i].calls <= cfg.MaxTranscriptRetries
       /\ obs[i].sleeps <= obs[i].calls
       /\ obs[i].sleeps < cfg.MaxTranscriptRetries
       /\ (obs[i].returned /\ obs[i].calls > 0 /\ obs[i].transients = obs[i].calls) =>
             /\ obs[i].calls = cfg.MaxTranscriptRetries
             /\ obs[i].sleeps = cfg.MaxTranscriptRetries - 1
             /\ obs[i].transcript = <<>>
             /\ obs[i].err = Err("yt-dlp failed", cfg.MaxTranscriptRetries, obs[i].lastOutput)
             /\ loc[i].result.Err = obs[i].err

\* Every attempt failed transiently and the call has returned.
C8_Witness ==
    \E i \in Workers :
       /\ obs[i].returned
       /\ obs[i].transients = defaultMaxTranscriptRetries
       /\ obs[i].err.kind = "yt-dlp failed"

\* C9: an attempt k that succeeds after k - 1 transient failures is the last
\* one: the fetch was called k times with k - 1 delays, the call does not
\* return the failure of exhausted retries, and it returns the transcript
\* parsed from the artifact whenever the artifact holds one.
C9_SuccessEndsTheRetries ==
    \A i \in Workers :
       obs[i].okAt # 0 =>
          /\ obs[i].calls = obs[i].okAt
          /\ obs[i].sleeps = obs[i].okAt - 1
          /\ obs[i].transients = obs[i].okAt - 1
          /\ obs[i].signalAt = 0
          /\ obs[i].returned =>
                /\ obs[i].err.kind # "yt-dlp failed"
                /\ (obs[i].parsedOk /\ FullTranscript(obs[i].subs) # <<>>) =>
                      /\ obs[i].transcript = FullTranscript(obs[i].subs)
                      /\ obs[i].err = Nil

\* Two transient failures, then a success whose artifact holds a transcript.
C9_Witness ==
    \E i \in Workers :
       /\ obs[i].okAt = 3
       /\ obs[i].transients = 2
       /\ obs[i].sleeps = 2
       /\ obs[i].returned
       /\ obs[i].transcript # <<>>

\* The results of a worker whose transcript was not acquired or is absent.
NoTranscriptKinds ==
    {"mkdir", "yt-dlp failed", "open/parse", "no transcript available"}

\* C10: a worker enters the summarizer only with a non-empty transcript that
\* was acquired without error, and a worker whose result says that the
\* transcript failed or is absent has made no Gemini call.
C10_SummarizerNeedsTranscript ==
    \A i \in Workers :
       /\ pc[i] = "summarize" =>
             /\ loc[i].transcript # <<>>
             /\ loc[i].transcriptErr = Nil
       /\ (pc[i] = "send" /\ loc[i].result.Err.kind \in NoTranscriptKinds) =>
             geminiCalls[i] = 0
       /\ geminiCalls[i] > 0 => pc[i] \notin {"idle", "start", "fetch", "sleep", "glob", "parse"}

\* With a Gemini client at hand, a worker whose transcript is absent is about
\* to send its result, while another one is inside the summarizer.
C10_Witness ==
    /\ geminiClient
    /\ \E i \in Workers :
          /\ pc[i] = "send"
          /\ loc[i].result.Err.kind = "no transcript available"
          /\ geminiCalls[i] = 0
    /\ \E j \in Workers : pc[j] = "summarize"

\* What a worker that is about to send has been through: the call of
\* getVideoTranscript has returned and its outcome is on record.
AboutToSend == {i \in Workers : pc[i] = "send" /\ obs[i].returned}

\* C11: the result a worker sends is decided by the first step that
\* applies, in this order: the acquisition failed (its error); the
\* transcript is empty ("no transcript available"); there is no Gemini
\* client ("summarization skipped"); the summarizer failed (its error);
\* otherwise the summary.  The summarizer has run only in the last two cases.
C11_ResultMapping ==
    \A i \in AboutToSend :
       LET result == loc[i].result
       IN /\ result.ID = videos[i]
          /\ IF obs[i].err # Nil
             THEN result.Err = obs[i].err /\ result.Summary = <<>> /\ ~obs[i].summarized
             ELSE IF obs[i].transcript = <<>>
             THEN /\ result.Err = Err("no transcript available", 0, <<>>)
                  /\ result.Summary = <<>>
                  /\ ~obs[i].summarized
             ELSE IF ~geminiClient
             THEN /\ result.Err = Err("summarization skipped", 0, <<>>)
                  /\ result.Summary = <<>>
                  /\ ~obs[i].summarized
             ELSE /\ obs[i].summarized
                  /\ IF obs[i].summaryErr # Nil
                     THEN result.Err = obs[i].summaryErr /\ result.Summary = <<>>
                     ELSE result.Err = Nil /\ result.Summary = TrimSpace(obs[i].summary)

\* Without a Gemini client, a worker whose fetch succeeded but left no
\* transcript is about to send "no transcript available".
C11_Witness ==
    /\ ~geminiClient
    /\ \E i \in AboutToSend :
          /\ obs[i].okAt # 0
          /\ obs[i].err = Nil
          /\ obs[i].transcript = <<>>
          /\ loc[i].result.Err.kind = "no transcript available"

\* The results delivered so far: those in the channel and those collected.
Delivered ==
    {resultsChannel[k] : k \in 1..Len(resultsChannel)}
    \cup {allResults[id] : id \in {x \in IDs : allResults[x] # Missing}}

\* C12: every result a worker has delivered carries either a non-empty
\* summary or an error, never both and never neither.
C12_ExactlyOneOutcome ==
    \A result \in Delivered : (result.Summary # <<>>) # (result.Err # Nil)

\* C13: at the end of the report every video was counted once:
\* successfulSummaries + videosWithErrors is the number of videos.
C13_CountsAddUp ==
    mainPc \in {"removeAll", "finished"} =>
       successfulSummaries + videosWithErrors = Len(videos)

\* C14: the report never takes its "result missing" branch: when main
\* reaches the report, allResults has an entry for every video's id.
C14_NoResultMissing ==
    /\ mainPc = "report" => \A k \in 1..Len(videos) : allResults[videos[k]] # Missing
    /\ \A k \in 1..Len(report) : report[k].Status # "Result missing."

\* The report of a full playlist of different videos is complete.
C14_Witness ==
    /\ mainPc = "report"
    /\ Len(videos) = MaxVideos
    /\ Len(report) = MaxVideos
    /\ \A j, k \in 1..Len(videos) : videos[j] = videos[k] => j = k

\* No worker has been dispatched and no video listed.
NothingProcessed ==
    /\ videos = <<>>
    /\ dispatchIdx = 0
    /\ wg = 0
    /\ \A i \in Workers : pc[i] = "idle" /\ sends[i] = 0

\* C15: a run that finds no YOUTUBE_API_KEY is aborted in
\* initializeAppConfig, before the service is made, the playlist listed or a
\* worker dispatched; a run that finds the key gets its configuration
\* whatever optional variables are unset (an unset GEMINI_API_KEY stays
\* empty, unset PLAYLIST_ID and GEMINI_MODEL take their defaults), so that
\* an abort of such a run comes from a later step.
C15_MissingCredentialIsFatal ==
    stub.env.read =>
       IF ~stub.env.YOUTUBE_API_KEY
       THEN /\ mainPc = "fatal"
            /\ cfg = NoConfig
            /\ stub.service = "none"
            /\ NothingProcessed
       ELSE /\ cfg # NoConfig
            /\ cfg.GeminiAPIKey = stub.env.GEMINI_API_KEY
            /\ cfg.PlaylistID = (IF stub.env.PLAYLIST_ID = Unset
                                 THEN defaultPlaylistID ELSE stub.env.PLAYLIST_ID)
            /\ cfg.GeminiModel = (IF stub.env.GEMINI_MODEL = Unset
                                  THEN defaultGeminiModel ELSE stub.env.GEMINI_MODEL)
            /\ mainPc = "fatal" => stub.service # "none"

\* The run was aborted for its missing YOUTUBE_API_KEY although every other
\* variable is set.
C15_Witness ==
    /\ mainPc = "fatal"
    /\ stub.env.read
    /\ ~stub.env.YOUTUBE_API_KEY
    /\ stub.env.GEMINI_API_KEY
    /\ stub.env.PLAYLIST_ID # Unset
    /\ stub.env.GEMINI_MODEL # Unset

\* genai.NewClient has failed although the key is there.
ClientConstructionFailed ==
    /\ cfg.GeminiAPIKey
    /\ ~geminiClient
    /\ mainPc \notin {"initializeAppConfig", "newGeminiClient"}

\* C16 as stated: after the YouTube service or the Gemini client failed to
\* construct, no worker is ever dispatched.
C16_ConstructionFailureAborts ==
    (stub.service = "failed" \/ ClientConstructionFailed) =>
       \A i \in Workers : pc[i] = "idle"

\* C16 as amended: a YouTube service that fails to construct aborts the run
\* before the playlist is listed or a worker dispatched; a Gemini client
\* that fails to construct does not abort it: the run goes on to construct
\* the service, and no worker ever calls the summarizer.
C16_ServiceFailureAborts ==
    /\ stub.service = "failed" => mainPc = "fatal" /\ NothingProcessed
    /\ ClientConstructionFailed =>
          /\ stub.service = "none" => mainPc = "getYouTubeService"
          /\ \A i \in Workers : pc[i] # "summarize" /\ geminiCalls[i] = 0

\* The service failed to construct after the Gemini client was made.
C16_Witness ==
    /\ stub.service = "failed"
    /\ mainPc = "fatal"
    /\ geminiClient

\* C17: in a run without GEMINI_API_KEY there is no client and Gemini is
\* never called; a worker with a non-empty transcript sends "summarization
\* skipped", a worker whose acquisition failed sends that failure, a worker
\* without transcript sends "no transcript available"; and every video's
\* worker has sent its result when collection ends.
C17_NoKeySkipsSummaries ==
    (cfg # NoConfig /\ ~cfg.GeminiAPIKey) =>
       /\ ~geminiClient
       /\ \A i \in Workers : pc[i] # "summarize" /\ geminiCalls[i] = 0
       /\ \A i \in AboutToSend :
             /\ loc[i].result.Summary = <<>>
             /\ loc[i].result.Err =
                   IF obs[i].err # Nil THEN obs[i].err
                   ELSE IF obs[i].transcript = <<>>
                        THEN Err("no transcript available", 0, <<>>)
                        ELSE Err("summarization skipped", 0, <<>>)
       /\ \A result \in Delivered : result.Summary = <<>> /\ result.Err # Nil
       /\ Collected =>
             /\ Len(arrivals) = Len(videos)
             /\ \A i \in 1..Len(videos) : sends[i] = 1

\* A run without the key has collected a skipped summarization and a failed
\* acquisition.
C17_Witness ==
    /\ cfg # NoConfig
    /\ ~cfg.GeminiAPIKey
    /\ Collected
    /\ \E id \in IDs : allResults[id].Err.kind = "summarization skipped"
    /\ \E id \in IDs : allResults[id].Err.kind = "yt-dlp failed"

\* The size of the Batch: the entries of allResults.
BatchSize == Cardinality({id \in IDs : allResults[id] # Missing})

\* C18: the Batch never shrinks, never holds more results than there are
\* videos, and holds exactly as many once the workers are done and
\* collection has ended.
C18_BatchGrows ==
    /\ [](BatchSize <= Len(videos) /\ (Collected => BatchSize = Len(videos)))
    /\ [][BatchSize' >= BatchSize]_vars

\* The subtitle files of video id in the temporary directory.
ArtifactsOf(id) == {f \in files : f[1] = id}

\* C19: once getVideoTranscript has located an artifact and returned from
\* its parse step, no artifact of the video remains.
C19_ArtifactCleanup ==
    \A i \in Workers :
       (obs[i].located /\ obs[i].returned) => ArtifactsOf(videos[i]) = {}

\* A text that is empty after normalization.
AllSpace(s) == \A k \in 1..Len(s) : IsSpace(s[k])

\* C20: a call whose fetch succeeded without the no-subtitles signal returns
\* no transcript and no error when no artifact is found, the open/parse
\* error when the artifact cannot be opened, no transcript and no error
\* when the parsed text is empty after trimming, and otherwise the parsed
\* text, non-empty and trimmed; the worker's result is "no transcript
\* available" exactly in the cases without transcript and error.
C20_OutcomeAfterFetch ==
    \A i \in Workers :
       (obs[i].okAt # 0 /\ obs[i].returned) =>
          LET text == ItemsText(obs[i].subs)
              absent == obs[i].transcript = <<>> /\ obs[i].err = Nil
          IN /\ ~obs[i].located => absent
             /\ (obs[i].located /\ ~obs[i].parsedOk) =>
                   /\ obs[i].err = Err("open/parse", 0, <<>>)
                   /\ obs[i].transcript = <<>>
             /\ (obs[i].parsedOk /\ AllSpace(text)) => absent
             /\ (obs[i].parsedOk /\ ~AllSpace(text)) =>
                   /\ obs[i].err = Nil
                   /\ obs[i].transcript # <<>>
                   /\ ~IsSpace(Head(obs[i].transcript))
                   /\ ~IsSpace(obs[i].transcript[Len(obs[i].transcript)])
                   /\ \E j, k \in 1..Len(text) :
                         /\ obs[i].transcript = SubSeq(text, j, k)
                         /\ AllSpace(SubSeq(text, 1, j - 1))
                         /\ AllSpace(SubSeq(text, k + 1, Len(text)))
             /\ obs[i].parsedOk => obs[i].located
             /\ absent <=> (pc[i] = "send" /\ loc[i].result.Err.kind = "no transcript available")

\* The artifact of a successful fetch was parsed and holds only white space.
C20_Witness ==
    \E i \in Workers :
       /\ obs[i].okAt # 0
       /\ obs[i].returned
       /\ obs[i].parsedOk
       /\ ItemsText(obs[i].subs) # <<>>
       /\ obs[i].transcript = <<>>
       /\ obs[i].err = Nil

\* C21: GenerateContent is called at most once for a video; a worker about
\* to send has called it exactly once if and only if its transcript was
\* acquired without error, is non-empty and there is a Gemini client; and
\* when that one call failed, its error is the worker's result.
C21_OneSummarizerCall ==
    \A i \in Workers :
       /\ geminiCalls[i] <= 1
       /\ pc[i] \in {"idle", "start", "fetch", "sleep", "glob", "parse", "summarize"} =>
             geminiCalls[i] = 0
       /\ i \in AboutToSend =>
             /\ geminiCalls[i] = 1 <=>
                   (obs[i].err = Nil /\ obs[i].transcript # <<>> /\ geminiClient)
             /\ obs[i].summarized <=> geminiCalls[i] = 1
             /\ (obs[i].summarized /\ obs[i].summaryErr # Nil) =>
                   /\ loc[i].result.Err = obs[i].summaryErr
                   /\ loc[i].result.Summary = <<>>

\* The one GenerateContent call of a worker failed (a timeout included) and
\* the worker is about to send that failure.
C21_Witness ==
    \E i \in AboutToSend :
       /\ geminiCalls[i] = 1
       /\ obs[i].summaryErr.kind = "gemini GenerateContent failed"
       /\ loc[i].result.Err = obs[i].summaryErr

\* C22: the workers that are running at the same time work on pairwise
\* different video ids, hence on different artifact paths.
C22_DistinctArtifactPaths ==
    \A i, j \in Running : i # j => videos[i] # videos[j]

\* C23: a worker that is about to send is never blocked (the results
\* channel has room), and under the scheduler's fairness the run of a
\* non-empty playlist, wherever its dispatch loop is (waiting for a slot
\* included), always reaches the report, by which time every worker has
\* given its slot back and exited.
C23_RunReachesReport ==
    /\ [](/\ \A i \in Workers : pc[i] = "send" => ResultsHasRoom
          /\ mainPc = "report" =>
                \A i \in 1..Len(videos) : pc[i] = "exited" /\ releases[i] = 1)
    /\ (mainPc \in {"loop", "acquire", "go", "collect"}) ~> (mainPc = "report")

\* The dispatch loop waits for a slot while all slots are held, main does
\* not yet read the results channel, and a worker is about to send.
C23_Witness ==
    /\ mainPc = "acquire"
    /\ ~SemaphoreHasRoom
    /\ \E i \in Workers : pc[i] = "send"

\* No worker goroutine is running.
WorkersDone == \A i \in Workers : pc[i] \in {"idle", "exited"}

====
